---- MODULE Spec2Model ----
(***************************************************************************)
(* Model of the PR-agent tool servers of the mcp-course repository:        *)
(*   projects/unit3/build-mcp-server/starter/server.py          ("build")  *)
(*   projects/unit3/github-actions-integration/starter/server.py ("actions")*)
(* Text is a sequence of one-character strings; a fixed message of the     *)
(* code is one atomic token of such a sequence.  A JSON object is a record *)
(* whose DOMAIN is the set of keys the code puts into it.                  *)
(* The variables: req is the tool call; git, tdir, evfile and gemini are   *)
(* the collaborators (the outcomes of the git commands, the templates      *)
(* directory, the event log, the Gemini service); result is the value the  *)
(* tool returns; cmds are the git commands run and prompts the prompts     *)
(* sent to the Gemini model, in order.  Where a tool call is followed step *)
(* by step, pc is its position and reader the open file of the call that   *)
(* reads the event log; history holds what came earlier in the process:    *)
(* the contents the event log has had, or the calls already served.        *)
(***************************************************************************)
EXTENDS Integers, Sequences, FiniteSets, TLC

VARIABLES req, git, tdir, evfile, gemini, result, cmds, prompts, pc, reader, history

vars == <<req, git, tdir, evfile, gemini, result, cmds, prompts, pc, reader, history>>

(***************************************************************************)
(* Bounds of the model.                                                    *)
(***************************************************************************)
MaxDiffLen == 4
MaxBudget == 3

(***************************************************************************)
(* Text helpers: str.split, str.join, slicing, str.strip.                  *)
(***************************************************************************)
NL == "\n"
TAB == "\t"
SP == " "
Whitespace == {SP, TAB, NL}

Min(a, b) == IF a < b THEN a ELSE b
Max(a, b) == IF a > b THEN a ELSE b

\* index of the first occurrence of sep in s, 0 when there is none
IndexOf(s, sep) ==
  IF \E i \in 1..Len(s) : s[i] = sep
  THEN CHOOSE i \in 1..Len(s) : s[i] = sep /\ \A j \in 1..(i - 1) : s[j] # sep
  ELSE 0

\* s.split(sep): always at least one element, "" splits into [""]
RECURSIVE Split(_, _)
Split(s, sep) ==
  LET i == IndexOf(s, sep)
  IN IF i = 0 THEN <<s>>
     ELSE <<SubSeq(s, 1, i - 1)>> \o Split(SubSeq(s, i + 1, Len(s)), sep)

\* a join that keeps the first line only
Join_FirstLineOnly(lines, sep) == IF lines = <<>> THEN <<>> ELSE lines[1]

\* sep.join(lines): the empty list joins into ""
RECURSIVE Join(_, _)
Join(lines, sep) ==
  IF lines = <<>> THEN <<>>
  ELSE IF Len(lines) = 1 THEN lines[1]
  ELSE lines[1] \o <<sep>> \o Join(Tail(lines), sep)

\* a slice that keeps one element too many
SliceTo_OneMore(seq, n) == SubSeq(seq, 1, Min(n + 1, Len(seq)))

\* seq[:n] of Python: a negative n counts from the end
SliceTo(seq, n) ==
  IF n >= 0 THEN SubSeq(seq, 1, Min(n, Len(seq)))
  ELSE SubSeq(seq, 1, Max(0, Len(seq) + n))

\* s.strip(): drops leading and trailing whitespace
Strip(s) ==
  IF \A i \in 1..Len(s) : s[i] \in Whitespace THEN <<>>
  ELSE LET lo == CHOOSE i \in 1..Len(s) :
                   s[i] \notin Whitespace /\ \A j \in 1..(i - 1) : s[j] \in Whitespace
           hi == CHOOSE i \in 1..Len(s) :
                   s[i] \notin Whitespace /\ \A j \in (i + 1)..Len(s) : s[j] \in Whitespace
       IN SubSeq(s, lo, hi)

(***************************************************************************)
(* The outcome of the git commands of one request (subprocess.run).        *)
(***************************************************************************)
NoResult == [pending |-> TRUE]

ErrNs == <<"fatal: ambiguous argument", NL>>
ErrDiff == <<"fatal: external diff died", NL>>

RECURSIVE TextsUpTo(_, _)
TextsUpTo(chars, n) ==
  IF n = 0 THEN {<<>>}
  ELSE LET shorter == TextsUpTo(chars, n - 1)
       IN shorter \cup {Append(t, c) : t \in {u \in shorter : Len(u) = n - 1}, c \in chars}

Ran(exit, out, err) == [exit |-> exit, stdout |-> out, stderr |-> err]

\* a diff of 50 newline-terminated lines
Diff50 == [i \in 1..100 |-> IF i % 2 = 1 THEN "a" ELSE NL]

GitIdle == [launch |-> TRUE, ns |-> Ran(0, <<>>, <<>>), stat |-> Ran(0, <<>>, <<>>),
            diff |-> Ran(0, <<>>, <<>>), log |-> Ran(0, <<>>, <<>>),
            show |-> Ran(0, <<>>, <<>>)]

\* the two queries describe one repository: when both succeed, files are
\* listed exactly when there is diff text
SameRepository(n, d) ==
  (n.exit = 0 /\ d.exit = 0) => ((n.stdout = <<>>) <=> (d.stdout = <<>>))

Budgets == (0 - 2)..MaxBudget

(***************************************************************************)
(* build server: analyze_file_changes                                      *)
(***************************************************************************)
\* the parse of the name-status output, server.py:82-91
RECURSIVE ParseLines(_)
ParseLines(lines) ==
  LET \* s.split(sep, 1): at most one cut
      Split1(s, sep) ==
        LET i == IndexOf(s, sep)
        IN IF i = 0 THEN <<s>>
           ELSE <<SubSeq(s, 1, i - 1), SubSeq(s, i + 1, Len(s))>>
  IN  IF lines = <<>> THEN <<>>
      ELSE LET line == Head(lines)
               parts == Split1(line, TAB)
           IN (IF line # <<>> /\ Len(parts) = 2
               THEN <<[status |-> parts[1], filename |-> parts[2]]>>
               ELSE <<>>) \o ParseLines(Tail(lines))

changed_files(stdout) == ParseLines(Split(Strip(stdout), NL))

truncation_message(max_diff_lines, total) ==
  "Diff truncated to " \o ToString(max_diff_lines) \o " lines (total: "
    \o ToString(total) \o " lines)"

\* the cut applied one line early
NeedsTruncation_OffByOne(diff_lines, max_diff_lines) == Len(diff_lines) >= max_diff_lines

\* server.py:117 (build), server.py:116 (actions): the condition under which
\* the diff is cut
NeedsTruncation(diff_lines, max_diff_lines) == Len(diff_lines) > max_diff_lines

\* server.py:99-129: the diff fields added to the result
diff_fields(g, max_diff_lines) ==
  IF g.diff.exit = 0
  THEN LET diff_lines == Split(g.diff.stdout, NL)
       IN IF NeedsTruncation(diff_lines, max_diff_lines)
          THEN [diff |-> Join(SliceTo(diff_lines, max_diff_lines), NL),
                diff_truncated |-> TRUE,
                total_diff_lines |-> Len(diff_lines),
                shown_diff_lines |-> max_diff_lines,
                truncation_message |->
                  truncation_message(max_diff_lines, Len(diff_lines))]
          ELSE [diff |-> g.diff.stdout,
                diff_truncated |-> FALSE,
                total_diff_lines |-> Len(diff_lines)]
  ELSE [diff_error |-> Strip(g.diff.stderr)]

\* the exit status of the first git query left unchecked
analyze_file_changes_NoExitCheck(base_branch, include_diff, max_diff_lines, g) ==
  LET files == changed_files(g.ns.stdout)
      base == [base_branch |-> base_branch,
               files_changed |-> Len(files),
               files |-> files]
  IN IF include_diff THEN diff_fields(g, max_diff_lines) @@ base ELSE base

\* server.py:50-137
analyze_file_changes(base_branch, include_diff, max_diff_lines, g) ==
  IF ~g.launch
  THEN [error |-> "Failed to analyze file changes", details |-> <<"No such file: git">>]
  ELSE IF g.ns.exit # 0
  THEN [error |-> "Failed to get changed files", details |-> Strip(g.ns.stderr)]
  ELSE LET files == changed_files(g.ns.stdout)
           base == [base_branch |-> base_branch,
                    files_changed |-> Len(files),
                    files |-> files]
       IN IF include_diff THEN diff_fields(g, max_diff_lines) @@ base ELSE base

\* the git commands the build server runs for one request, in order
analyze_file_changes_cmds(include_diff, g) ==
  IF ~g.launch THEN <<>>
  ELSE IF g.ns.exit # 0 THEN <<"name-status">>
  ELSE IF include_diff THEN <<"name-status", "diff">>
  ELSE <<"name-status">>

(***************************************************************************)
(* actions server: analyze_file_changes                                    *)
(***************************************************************************)
NoticeShowing(max_diff_lines, total) ==
  "... Output truncated. Showing " \o ToString(max_diff_lines) \o " of "
    \o ToString(total) \o " lines ..."

NoticeHint == "... Use max_diff_lines parameter to see more ..."

\* server.py:117-119: the notice appended to a truncated diff
TruncationNotice(max_diff_lines, total) ==
  <<NL, NL, NoticeShowing(max_diff_lines, total), NL, NoticeHint>>

\* server.py:70-147
actions_analyze_file_changes(base_branch, include_diff, max_diff_lines, g) ==
  LET \* server.py:104-122
      actions_diff_content ==
        IF ~include_diff THEN <<>>
        ELSE LET diff_lines == Split(g.diff.stdout, NL)
             IN IF NeedsTruncation(diff_lines, max_diff_lines)
                THEN Join(SliceTo(diff_lines, max_diff_lines), NL)
                       \o TruncationNotice(max_diff_lines, Len(diff_lines))
                ELSE g.diff.stdout
      actions_truncated ==
        include_diff /\ NeedsTruncation(Split(g.diff.stdout, NL), max_diff_lines)
  IN  IF ~g.launch
      THEN [error |-> <<"No such file: git">>]
      ELSE IF g.ns.exit # 0
      THEN [error |-> <<"Git error: ">> \o g.ns.stderr]
      ELSE [base_branch |-> base_branch,
            files_changed |-> g.ns.stdout,
            statistics |-> g.stat.stdout,
            commits |-> g.log.stdout,
            diff |-> IF include_diff
                     THEN actions_diff_content
                     ELSE <<"Diff not included (set include_diff=true to see full diff)">>,
            truncated |-> actions_truncated,
            total_diff_lines |-> IF include_diff
                                 THEN Len(Split(g.diff.stdout, NL)) ELSE 0]

\* the git commands the actions server runs for one request, in order
actions_analyze_file_changes_cmds(include_diff, g) ==
  IF ~g.launch THEN <<>>
  ELSE IF g.ns.exit # 0 THEN <<"name-status">>
  ELSE IF include_diff THEN <<"name-status", "stat", "diff", "log">>
  ELSE <<"name-status", "stat", "log">>

(***************************************************************************)
(* Requests and the state machine of the diff tools.                       *)
(***************************************************************************)
TdirIdle == [exists |-> TRUE, listing |-> <<>>, unreadable |-> {}]
EvfileIdle == [exists |-> FALSE, valid |-> TRUE, events |-> <<>>]
\* the Gemini service is not configured, no reply is ever asked for
\* no open file: fd says whether the log is open, inode which file it is,
\* detached whether that file was replaced under its name (old is its
\* content then), buf what has been read
ReaderIdle == [fd |-> FALSE, inode |-> 0, detached |-> FALSE, old |-> <<>>, buf |-> <<>>]

GeminiIdle ==
  [available |-> FALSE, raises |-> FALSE, text |-> <<>>, hashseed |-> 0,
   description |-> [raises |-> FALSE, text |-> <<>>]]

InitDiff ==
  LET \* every outcome of the four git commands; launch = FALSE: git cannot be started
      GitRuns ==
        LET \* a failing git command writes its message to stderr and nothing to stdout
            NsRuns ==
              {Ran(0, <<>>, <<>>), Ran(0, <<"M", TAB, "f", NL>>, <<>>), Ran(128, <<>>, ErrNs)}
            DiffRuns ==
              {Ran(0, t, <<>>) : t \in TextsUpTo({"a", "b", NL}, MaxDiffLen) \cup {Diff50}}
              \cup {Ran(128, <<>>, ErrDiff)}
        IN  {g \in {[GitIdle EXCEPT !.ns = n, !.stat = s, !.diff = d, !.log = l] :
                      n \in NsRuns,
                      s \in {Ran(0, <<"1 file changed", NL>>, <<>>),
                             Ran(128, <<>>, <<"fatal: stat", NL>>)},
                      d \in DiffRuns,
                      l \in {Ran(0, <<"abc1 msg", NL>>, <<>>),
                             Ran(128, <<>>, <<"fatal: log", NL>>)}} :
                SameRepository(g.ns, g.diff)}
            \cup {[GitIdle EXCEPT !.launch = FALSE]}
  IN  /\ req \in [op : {"analyze_file_changes"}, server : {"build", "actions"},
                  base_branch : {"main"}, include_diff : BOOLEAN,
                  max_diff_lines : Budgets]
      /\ git \in GitRuns
      /\ tdir = TdirIdle
      /\ evfile = EvfileIdle
      /\ gemini = GeminiIdle
      /\ result = NoResult
      /\ cmds = <<>>
      /\ prompts = <<>>
      /\ reader = ReaderIdle
      /\ history = <<>>
      /\ pc = "idle"

AnalyzeFileChanges ==
  /\ pc = "idle"
  /\ req.op = "analyze_file_changes"
  /\ req.server = "build"
  /\ result' = analyze_file_changes(req.base_branch, req.include_diff,
                                    req.max_diff_lines, git)
  /\ cmds' = analyze_file_changes_cmds(req.include_diff, git)
  /\ pc' = "done"
  /\ UNCHANGED <<req, git, tdir, evfile, gemini, prompts, reader, history>>

ActionsAnalyzeFileChanges ==
  /\ pc = "idle"
  /\ req.op = "analyze_file_changes"
  /\ req.server = "actions"
  /\ result' = actions_analyze_file_changes(req.base_branch, req.include_diff,
                                            req.max_diff_lines, git)
  /\ cmds' = actions_analyze_file_changes_cmds(req.include_diff, git)
  /\ pc' = "done"
  /\ UNCHANGED <<req, git, tdir, evfile, gemini, prompts, reader, history>>

NextDiff == AnalyzeFileChanges \/ ActionsAnalyzeFileChanges

SpecDiff == InitDiff /\ [][NextDiff]_vars

(***************************************************************************)
(* Observers of a finished analyze_file_changes request.                   *)
(***************************************************************************)
Done == pc = "done"
IsError(r) == "error" \in DOMAIN r
IsBuild == req.server = "build"

\* the result reports a diff payload
DiffReported(r) ==
  /\ req.op = "analyze_file_changes"
  /\ req.include_diff
  /\ IF IsBuild THEN "diff_truncated" \in DOMAIN r ELSE "truncated" \in DOMAIN r

Truncated(r) == IF IsBuild THEN r.diff_truncated ELSE r.truncated
TotalLineCount(r) == r.total_diff_lines

NoticeTokens(r) ==
  {NoticeHint}
    \cup {NoticeShowing(k, r.total_diff_lines) : k \in Budgets}
    \cup {truncation_message(k, r.total_diff_lines) : k \in Budgets}

\* the diff text holds a truncation notice
HasNotice(r) == \E i \in 1..Len(r.diff) : r.diff[i] \in NoticeTokens(r)

\* the diff text without the notice and the blank line that introduces it
DiffBody(r) ==
  IF HasNotice(r)
  THEN LET i == CHOOSE j \in 1..Len(r.diff) :
                  /\ r.diff[j] \in NoticeTokens(r)
                  /\ \A h \in 1..(j - 1) : r.diff[h] \notin NoticeTokens(r)
       IN SubSeq(r.diff, 1, Max(0, i - 3))
  ELSE r.diff

\* the number of lines the result says it shows: shown_diff_lines of the build
\* server, the "Showing k of n" of the actions server, everything when uncut
IncludedLineCount(r) ==
  IF ~Truncated(r) THEN Len(Split(r.diff, NL))
  ELSE IF IsBuild THEN r.shown_diff_lines
  ELSE CHOOSE k \in Budgets : \E i \in 1..Len(r.diff) :
         r.diff[i] = NoticeShowing(k, r.total_diff_lines)

\* text is k lines joined by newlines
IsJoinOf(text, k) ==
  IF k = 0 THEN text = <<>> ELSE Len(Split(text, NL)) = k

\* C1: with include_diff and max_diff_lines >= 0, included_line_count is
\* min(total_line_count, max_diff_lines) and truncated is
\* (total_line_count > max_diff_lines), in both servers.
C1_BudgetInvariant ==
  (Done /\ DiffReported(result) /\ req.max_diff_lines >= 0) =>
    /\ IncludedLineCount(result) = Min(TotalLineCount(result), req.max_diff_lines)
    /\ Truncated(result) = (TotalLineCount(result) > req.max_diff_lines)

C1_Witness ==
  /\ Done /\ DiffReported(result)
  /\ req.max_diff_lines = 2
  /\ TotalLineCount(result) = 3
  /\ Truncated(result)
  /\ IncludedLineCount(result) = 2

IsAnalyze == req.op = "analyze_file_changes"

\* the result has none of the keys that carry (part of) a ChangeSet
NoChangeSet(r) ==
  DOMAIN r \cap {"files", "files_changed", "statistics", "commits", "diff",
                 "total_diff_lines"} = {}

\* the typed kind of an error envelope, when it has one
ErrorKind(r) == IF "kind" \in DOMAIN r THEN r.kind ELSE "untyped"

\* the error envelope carries the stderr of the command
CarriesStderr(r, run) ==
  /\ IsError(r)
  /\ IF IsBuild THEN "details" \in DOMAIN r /\ r.details = Strip(run.stderr)
     ELSE r.error = <<"Git error: ">> \o run.stderr

C4_AbortOnGitFailure ==
  LET \* the outcome of a git command of the request
      RunOf(c) ==
        IF c = "name-status" THEN git.ns
        ELSE IF c = "stat" THEN git.stat
        ELSE IF c = "diff" THEN git.diff
        ELSE git.log
  IN  (Done /\ IsAnalyze /\ git.launch) =>
        \A i \in 1..Len(cmds) :
          RunOf(cmds[i]).exit # 0 =>
            /\ IsError(result)
            /\ CarriesStderr(result, RunOf(cmds[i]))
            /\ NoChangeSet(result)

C9_WithinBudget ==
  LET \* the number of diff lines a text carries
      DiffLinesIn(text) == IF text = <<>> THEN 0 ELSE Len(Split(text, NL))
  IN  (Done /\ DiffReported(result)) =>
        DiffLinesIn(DiffBody(result)) <= Max(0, req.max_diff_lines)

\* C10: with include_diff and existing diff content the diff is never
\* silently empty: the text is non-empty, or truncation or an error is
\* signalled.
C10_NeverSilentlyEmpty ==
  LET \* the repository has diff content: git printed some, or a changed file is listed
      DiffContentExists ==
        \/ git.diff.stdout # <<>>
        \/ git.ns.exit = 0 /\ changed_files(git.ns.stdout) # <<>>
      TruncationSignalled(r) ==
        \/ "diff_truncated" \in DOMAIN r /\ r.diff_truncated
        \/ "truncated" \in DOMAIN r /\ r.truncated
      ErrorSignalled(r) == "error" \in DOMAIN r \/ "diff_error" \in DOMAIN r
  IN  (Done /\ IsAnalyze /\ git.launch /\ req.include_diff /\ DiffContentExists) =>
        \/ "diff" \in DOMAIN result /\ result.diff # <<>>
        \/ TruncationSignalled(result)
        \/ ErrorSignalled(result)

\* C25: the total line count reported equals the number of lines of the git
\* diff output (0 for an empty output, n for n newline-terminated lines), so
\* a diff of exactly max_diff_lines lines is returned in full, not truncated.
C25_TotalLineCount ==
  LET \* the number of lines of a git output: its newline-terminated lines,
      \* and the unterminated rest if there is one
      LineCount(text) ==
        Cardinality({i \in 1..Len(text) : text[i] = NL})
          + (IF text # <<>> /\ text[Len(text)] # NL THEN 1 ELSE 0)
  IN  (Done /\ DiffReported(result)) =>
        /\ TotalLineCount(result) = LineCount(git.diff.stdout)
        /\ LineCount(git.diff.stdout) = req.max_diff_lines =>
             /\ ~Truncated(result)
             /\ result.diff = git.diff.stdout

\* C26: truncation keeps a prefix: a truncated diff (max_diff_lines >= 0)
\* returns exactly the first max_diff_lines lines of the git output, in their
\* order; a diff that is not truncated is the git output itself.
C26_TruncationKeepsPrefix ==
  LET out == git.diff.stdout
      nl == {i \in 1..Len(out) : out[i] = NL}
      \* the text of the first k lines of the output, k >= 1: all that
      \* precedes the newline that ends line k
      FirstLines(k) ==
        LET cut == CHOOSE i \in nl : Cardinality({j \in nl : j < i}) = k - 1
        IN SubSeq(out, 1, cut - 1)
  IN  (Done /\ DiffReported(result) /\ req.max_diff_lines >= 0) =>
        IF Truncated(result)
        THEN /\ Cardinality(nl) >= req.max_diff_lines
             /\ DiffBody(result) = IF req.max_diff_lines = 0 THEN <<>>
                                   ELSE FirstLines(req.max_diff_lines)
        ELSE result.diff = out

C26_Witness ==
  /\ Done /\ DiffReported(result)
  /\ req.max_diff_lines = 2
  /\ git.diff.stdout = <<"a", NL, "b", NL>>
  /\ Truncated(result)
  /\ DiffBody(result) = <<"a", NL, "b">>

(***************************************************************************)
(* Strings of the template tools, spelled as character sequences.          *)
(***************************************************************************)
\* the type strings and template names of the two servers, spelled as
\* character sequences
S ==
  [bug |-> <<"b", "u", "g">>,
   fix |-> <<"f", "i", "x">>,
   feature |-> <<"f", "e", "a", "t", "u", "r", "e">>,
   enhancement |-> <<"e", "n", "h", "a", "n", "c", "e", "m", "e", "n", "t">>,
   docs |-> <<"d", "o", "c", "s">>,
   documentation |-> <<"d", "o", "c", "u", "m", "e", "n", "t", "a", "t", "i", "o", "n">>,
   refactor |-> <<"r", "e", "f", "a", "c", "t", "o", "r">>,
   cleanup |-> <<"c", "l", "e", "a", "n", "u", "p">>,
   refactoring |-> <<"r", "e", "f", "a", "c", "t", "o", "r", "i", "n", "g">>,
   test |-> <<"t", "e", "s", "t">>,
   tests |-> <<"t", "e", "s", "t", "s">>,
   testing |-> <<"t", "e", "s", "t", "i", "n", "g">>,
   performance |-> <<"p", "e", "r", "f", "o", "r", "m", "a", "n", "c", "e">>,
   perf |-> <<"p", "e", "r", "f">>,
   optimization |-> <<"o", "p", "t", "i", "m", "i", "z", "a", "t", "i", "o", "n">>,
   security |-> <<"s", "e", "c", "u", "r", "i", "t", "y">>,
   sec |-> <<"s", "e", "c">>,
   chore |-> <<"c", "h", "o", "r", "e">>]

DotMd == <<".", "m", "d">>

\* str.lower() on one character
LowerOf ==
  ("A" :> "a") @@ ("B" :> "b") @@ ("C" :> "c") @@ ("D" :> "d") @@ ("E" :> "e") @@ ("F" :> "f") @@
  ("G" :> "g") @@ ("H" :> "h") @@ ("I" :> "i") @@ ("J" :> "j") @@ ("K" :> "k") @@ ("L" :> "l") @@
  ("M" :> "m") @@ ("N" :> "n") @@ ("O" :> "o") @@ ("P" :> "p") @@ ("Q" :> "q") @@ ("R" :> "r") @@
  ("S" :> "s") @@ ("T" :> "t") @@ ("U" :> "u") @@ ("V" :> "v") @@ ("W" :> "w") @@ ("X" :> "x") @@
  ("Y" :> "y") @@ ("Z" :> "z")

\* the characters of the model in code-point order
CodePoints ==
  <<
    TAB, NL, SP, ".", "A", "B", "C", "D", "E", "F", "G", "H",
    "I", "J", "K", "L", "M", "N", "O", "P", "Q", "R", "S", "T",
    "U", "V", "W", "X", "Y", "Z", "_", "a", "b", "c", "d", "e",
    "f", "g", "h", "i", "j", "k", "l", "m", "n", "o", "p", "q",
    "r", "s", "t", "u", "v", "w", "x", "y", "z"
  >>

Lower(s) == [i \in 1..Len(s) |-> IF s[i] \in DOMAIN LowerOf THEN LowerOf[s[i]] ELSE s[i]]

Code(c) == CHOOSE i \in 1..Len(CodePoints) : CodePoints[i] = c

\* a < b on Python strings: lexicographic by code point
RECURSIVE StrLess(_, _)
StrLess(a, b) ==
  IF b = <<>> THEN FALSE
  ELSE IF a = <<>> THEN TRUE
  ELSE IF a[1] = b[1] THEN StrLess(Tail(a), Tail(b))
  ELSE Code(a[1]) < Code(b[1])

Range(f) == {f[i] : i \in DOMAIN f}

Null == <<"null">>
NoTemplate == [none |-> TRUE]

(***************************************************************************)
(* build server: get_pr_templates, suggest_template                        *)
(***************************************************************************)
MaxTemplates == 3

ContentOf(stem) == <<"# PR template: ">> \o stem

\* list.sort(key=name): a stable sort
RECURSIVE InsertByName(_, _)
InsertByName(t, sorted) ==
  IF sorted = <<>> THEN <<t>>
  ELSE IF StrLess(t.name, Head(sorted).name) THEN <<t>> \o sorted
  ELSE <<Head(sorted)>> \o InsertByName(t, Tail(sorted))

\* the list left in the order glob produced it
SortByName_GlobOrder(ts) == ts

RECURSIVE SortByName(_)
SortByName(ts) ==
  IF ts = <<>> THEN <<>>
  ELSE InsertByName(ts[Len(ts)], SortByName(SubSeq(ts, 1, Len(ts) - 1)))

\* server.py:143-186; a JSON list is wrapped as [json_list |-> ...]
get_pr_templates(td) ==
  LET \* server.py:155-174: the entry of one globbed file
      TemplateEntry(stem) ==
        IF stem \in td.unreadable
        THEN [filename |-> stem \o DotMd, name |-> stem, type |-> stem,
              error |-> <<"Failed to read template: Permission denied">>,
              path |-> <<"templates/">> \o stem \o DotMd]
        ELSE [filename |-> stem \o DotMd, name |-> stem, type |-> stem,
              content |-> ContentOf(stem),
              path |-> <<"templates/">> \o stem \o DotMd]
  IN  IF ~td.exists
      THEN [error |-> "Templates directory not found", path |-> <<"templates">>]
      ELSE [json_list |->
              SortByName([i \in 1..Len(td.listing) |-> TemplateEntry(td.listing[i])])]

\* server.py:211-227
type_mapping ==
  (S.bug :> <<S.bug, S.feature, S.refactor>>) @@
  (S.fix :> <<S.bug, S.feature, S.refactor>>) @@
  (S.feature :> <<S.feature, S.bug, S.refactor>>) @@
  (S.enhancement :> <<S.feature, S.bug, S.refactor>>) @@
  (S.docs :> <<S.docs, S.feature, S.refactor>>) @@
  (S.documentation :> <<S.docs, S.feature, S.refactor>>) @@
  (S.refactor :> <<S.refactor, S.feature, S.bug>>) @@
  (S.refactoring :> <<S.refactor, S.feature, S.bug>>) @@
  (S.test :> <<S.test, S.feature, S.bug>>) @@
  (S.tests :> <<S.test, S.feature, S.bug>>) @@
  (S.testing :> <<S.test, S.feature, S.bug>>) @@
  (S.performance :> <<S.performance, S.refactor, S.feature>>) @@
  (S.perf :> <<S.performance, S.refactor, S.feature>>) @@
  (S.security :> <<S.security, S.bug, S.feature>>) @@
  (S.sec :> <<S.security, S.bug, S.feature>>)

\* server.py:230-233
template_priorities(change_type) ==
  LET normalized_type == Strip(Lower(change_type))
  IN IF normalized_type \in DOMAIN type_mapping
     THEN type_mapping[normalized_type]
     ELSE <<normalized_type, S.feature, S.bug>>

\* server.py:236: {t["type"]: t for t in templates_data}: the last entry of a type
available_templates(templates_data, template_type) ==
  templates_data[CHOOSE i \in 1..Len(templates_data) :
                   /\ templates_data[i].type = template_type
                   /\ \A j \in (i + 1)..Len(templates_data) :
                        templates_data[j].type # template_type]

TypesOf(templates_data) == {templates_data[i].type : i \in 1..Len(templates_data)}

\* the walk without its break: the last candidate found wins
RECURSIVE first_match_NoBreak(_, _)
first_match_NoBreak(priorities, templates_data) ==
  IF priorities = <<>> THEN NoTemplate
  ELSE LET rest == first_match_NoBreak(Tail(priorities), templates_data)
       IN IF rest # NoTemplate THEN rest
          ELSE IF Head(priorities) \in TypesOf(templates_data)
          THEN available_templates(templates_data, Head(priorities))
          ELSE NoTemplate

\* server.py:237-243: the walk over the priority list
RECURSIVE first_match(_, _)
first_match(priorities, templates_data) ==
  IF priorities = <<>> THEN NoTemplate
  ELSE IF Head(priorities) \in TypesOf(templates_data)
  THEN available_templates(templates_data, Head(priorities))
  ELSE first_match(Tail(priorities), templates_data)

\* server.py:197-266
suggest_template(changes_summary, change_type, td) ==
  LET templates_result == get_pr_templates(td)
  IN IF IsError(templates_result)
     THEN [error |-> "Cannot suggest template - failed to load templates",
           details |-> templates_result]
     ELSE
       LET templates_data == templates_result.json_list
           matched == first_match(template_priorities(change_type), templates_data)
           recommended_template ==
             IF matched = NoTemplate /\ templates_data # <<>>
             THEN templates_data[1] ELSE matched
           recommended_type ==
             IF recommended_template # NoTemplate
             THEN recommended_template.type ELSE Null
       IN [changes_summary |-> changes_summary,
           change_type |-> change_type,
           recommended_template |-> recommended_type,
           template |-> recommended_template,
           available_templates |->
             [i \in 1..Len(templates_data) |-> templates_data[i].type],
           reasoning |->
             <<"Based on change type '">> \o change_type
               \o <<"', recommended template '">>
               \o (IF recommended_template # NoTemplate
                   THEN recommended_template.type ELSE <<"none">>)
               \o <<"'">>]

(***************************************************************************)
(* actions server: get_pr_templates, suggest_template                      *)
(***************************************************************************)
\* server.py:23-31, in dict order: <<file stem, template type>>
DEFAULT_TEMPLATES ==
  << <<S.bug, <<"Bug Fix">> >>, <<S.feature, <<"Feature">> >>,
     <<S.docs, <<"Documentation">> >>, <<S.refactor, <<"Refactor">> >>,
     <<S.test, <<"Test">> >>, <<S.performance, <<"Performance">> >>,
     <<S.security, <<"Security">> >> >>

\* server.py:36-50
TYPE_MAPPING ==
  (S.bug :> S.bug \o DotMd) @@ (S.fix :> S.bug \o DotMd) @@
  (S.feature :> S.feature \o DotMd) @@ (S.enhancement :> S.feature \o DotMd) @@
  (S.docs :> S.docs \o DotMd) @@ (S.documentation :> S.docs \o DotMd) @@
  (S.refactor :> S.refactor \o DotMd) @@ (S.cleanup :> S.refactor \o DotMd) @@
  (S.test :> S.test \o DotMd) @@ (S.testing :> S.test \o DotMd) @@
  (S.performance :> S.performance \o DotMd) @@
  (S.optimization :> S.performance \o DotMd) @@
  (S.security :> S.security \o DotMd)

\* Path.read_text succeeds on the file of this stem
Readable(stem, td) ==
  td.exists /\ stem \in Range(td.listing) /\ stem \notin td.unreadable

\* server.py:152-163: read_text raises out of the tool, nothing catches it
actions_get_pr_templates(td) ==
  IF \E i \in 1..Len(DEFAULT_TEMPLATES) : ~Readable(DEFAULT_TEMPLATES[i][1], td)
  THEN [exception |-> "OSError"]
  ELSE [json_list |->
          [i \in 1..Len(DEFAULT_TEMPLATES) |->
             [filename |-> DEFAULT_TEMPLATES[i][1] \o DotMd,
              type |-> DEFAULT_TEMPLATES[i][2],
              content |-> ContentOf(DEFAULT_TEMPLATES[i][1])]]]

\* server.py:175-193
actions_suggest_template(changes_summary, change_type, td) ==
  LET templates_response == actions_get_pr_templates(td)
  IN IF "exception" \in DOMAIN templates_response THEN templates_response
     ELSE
       LET templates == templates_response.json_list
           template_file ==
             IF Lower(change_type) \in DOMAIN TYPE_MAPPING
             THEN TYPE_MAPPING[Lower(change_type)] ELSE S.feature \o DotMd
           selected_template ==
             IF \E i \in 1..Len(templates) : templates[i].filename = template_file
             THEN templates[CHOOSE i \in 1..Len(templates) :
                              /\ templates[i].filename = template_file
                              /\ \A j \in 1..(i - 1) :
                                   templates[j].filename # template_file]
             ELSE templates[1]
       IN [recommended_template |-> selected_template,
           reasoning |->
             <<"Based on your analysis: '">> \o changes_summary
               \o <<"', this appears to be a ">> \o change_type \o <<" change.">>,
           template_content |-> selected_template.content,
           usage_hint |->
             <<"Claude can help you fill out this template based on the specific changes in your PR.">>]

(***************************************************************************)
(* Requests and the state machine of the template tools.                   *)
(***************************************************************************)
\* the orders in which glob may list up to n distinct files
RECURSIVE Listings(_)
Listings(n) ==
  LET Stems == {S.bug, S.feature, S.refactor, S.docs, S.test, S.chore, S.cleanup}
  IN  IF n = 0 THEN {<<>>}
      ELSE LET shorter == Listings(n - 1)
               longest == {l \in shorter : Len(l) = n - 1}
           IN shorter \cup
                {Append(p[1], p[2]) :
                   p \in {q \in longest \X Stems : q[2] \notin Range(q[1])}}

\* the seven default templates, in an order glob may produce
DefaultListing ==
  <<S.test, S.security, S.refactor, S.performance, S.feature, S.docs, S.bug>>

ChangeTypes ==
  DOMAIN type_mapping \cup DOMAIN TYPE_MAPPING
    \cup {S.chore, <<>>, <<"F", "I", "X">>, <<SP, "f", "i", "x", SP>>,
          <<"D", "o", "c", "s">>, <<"b", "u", "g", NL>>}

InitTemplates ==
  LET TemplateDirs ==
        {[exists |-> FALSE, listing |-> <<>>, unreadable |-> {}]}
        \cup {[exists |-> TRUE, listing |-> l, unreadable |-> {}] :
                l \in Listings(MaxTemplates) \cup {DefaultListing}}
        \cup {[exists |-> TRUE, listing |-> l, unreadable |-> {l[1]}] :
                l \in (Listings(MaxTemplates) \cup {DefaultListing}) \ {<<>>}}
  IN  /\ req \in [op : {"suggest_template"}, server : {"build", "actions"},
                  changes_summary : {<<"adds a retry to the uploader">>},
                  change_type : ChangeTypes]
                   \cup [op : {"get_pr_templates"}, server : {"build", "actions"}]
      /\ tdir \in TemplateDirs
      /\ git = GitIdle
      /\ evfile = EvfileIdle
      /\ gemini = GeminiIdle
      /\ result = NoResult
      /\ cmds = <<>>
      /\ prompts = <<>>
      /\ reader = ReaderIdle
      /\ history = <<>>
      /\ pc = "idle"

GetPrTemplates ==
  /\ pc = "idle"
  /\ req.op = "get_pr_templates"
  /\ req.server = "build"
  /\ result' = get_pr_templates(tdir)
  /\ pc' = "done"
  /\ UNCHANGED <<req, git, tdir, evfile, gemini, cmds, prompts, reader, history>>

ActionsGetPrTemplates ==
  /\ pc = "idle"
  /\ req.op = "get_pr_templates"
  /\ req.server = "actions"
  /\ result' = actions_get_pr_templates(tdir)
  /\ pc' = "done"
  /\ UNCHANGED <<req, git, tdir, evfile, gemini, cmds, prompts, reader, history>>

SuggestTemplate ==
  /\ pc = "idle"
  /\ req.op = "suggest_template"
  /\ req.server = "build"
  /\ result' = suggest_template(req.changes_summary, req.change_type, tdir)
  /\ pc' = "done"
  /\ UNCHANGED <<req, git, tdir, evfile, gemini, cmds, prompts, reader, history>>

ActionsSuggestTemplate ==
  /\ pc = "idle"
  /\ req.op = "suggest_template"
  /\ req.server = "actions"
  /\ result' = actions_suggest_template(req.changes_summary, req.change_type, tdir)
  /\ pc' = "done"
  /\ UNCHANGED <<req, git, tdir, evfile, gemini, cmds, prompts, reader, history>>

NextTemplates ==
  GetPrTemplates \/ ActionsGetPrTemplates \/ SuggestTemplate \/ ActionsSuggestTemplate

SpecTemplates == InitTemplates /\ [][NextTemplates]_vars

(***************************************************************************)
(* One process of the build server that serves several template calls, one *)
(* after the other, while the template directory changes.  history keeps,  *)
(* for every call served, the request, the directory at the time of the    *)
(* call and the result.                                                    *)
(***************************************************************************)
MaxCalls == 2

\* what the tool of a template request returns over a template directory
template_tool(r, td) ==
  IF r.op = "get_pr_templates" THEN get_pr_templates(td)
  ELSE suggest_template(r.changes_summary, r.change_type, td)

CatalogRequests ==
  [op : {"suggest_template"}, server : {"build"},
   changes_summary : {<<"adds a retry to the uploader">>},
   change_type : {S.bug, S.docs}]
    \cup [op : {"get_pr_templates"}, server : {"build"}]

\* the states of the template directory
CatalogDirs ==
  {[TdirIdle EXCEPT !.exists = FALSE]}
    \cup {[TdirIdle EXCEPT !.listing = l] :
            l \in {<<>>, <<S.bug>>, <<S.feature>>, <<S.feature, S.bug>>}}

InitCatalog ==
  /\ req \in CatalogRequests
  /\ tdir \in CatalogDirs
  /\ git = GitIdle
  /\ evfile = EvfileIdle
  /\ gemini = GeminiIdle
  /\ result = NoResult
  /\ cmds = <<>>
  /\ prompts = <<>>
  /\ reader = ReaderIdle
  /\ history = <<>>
  /\ pc = "idle"

\* server.py:140-186, 189-266: the process serves the call
ServeTemplateCall ==
  /\ pc = "idle"
  /\ result' = template_tool(req, tdir)
  /\ history' = Append(history, [req |-> req, tdir |-> tdir, result |-> result'])
  /\ pc' = "done"
  /\ UNCHANGED <<req, git, tdir, evfile, gemini, cmds, prompts, reader>>

\* the same process receives its next call
NextTemplateCall ==
  /\ pc = "done"
  /\ Len(history) < MaxCalls
  /\ req' \in CatalogRequests
  /\ result' = NoResult
  /\ pc' = "idle"
  /\ UNCHANGED <<git, tdir, evfile, gemini, cmds, prompts, reader, history>>

\* template files are added to or removed from the directory, or the
\* directory itself is
DirectoryChanges ==
  /\ tdir' \in CatalogDirs \ {tdir}
  /\ UNCHANGED <<req, git, evfile, gemini, result, cmds, prompts, pc, reader, history>>

NextCatalog == ServeTemplateCall \/ NextTemplateCall \/ DirectoryChanges

SpecCatalog == InitCatalog /\ [][NextCatalog]_vars

\* C23: the template catalog is loaded once per process: every
\* get_pr_templates and suggest_template call that a process serves after
\* its first load returns what the tool returns over the directory as it was
\* at that first load, whatever changes the directory has seen since (the
\* code has no cache invalidation that could be called in between).  The
\* first load counts when the directory existed, so that a catalog was
\* loaded.
C23_CatalogLoadedOnce ==
  (history # <<>> /\ history[1].tdir.exists) =>
    \A i \in 1..Len(history) :
      history[i].result = template_tool(history[i].req, history[1].tdir)

(***************************************************************************)
(* Observers of a finished template request.                               *)
(***************************************************************************)
IsSuggest == req.op = "suggest_template"

\* the keys of the catalog the server works with
CatalogKeys ==
  IF IsBuild THEN Range(tdir.listing)
  ELSE {DEFAULT_TEMPLATES[i][1] : i \in 1..Len(DEFAULT_TEMPLATES)}

\* the catalog could be loaded
CatalogLoaded ==
  IF IsBuild THEN tdir.exists
  ELSE \A i \in 1..Len(DEFAULT_TEMPLATES) : Readable(DEFAULT_TEMPLATES[i][1], tdir)

\* the key of the first entry of the catalog: the least name in the build
\* server, the first default template in the actions server
FirstCatalogKey ==
  IF IsBuild
  THEN CHOOSE k \in CatalogKeys : \A o \in CatalogKeys \ {k} : StrLess(k, o)
  ELSE DEFAULT_TEMPLATES[1][1]

\* the key of the template a result recommends
RecommendedKey(r) ==
  IF IsBuild THEN r.recommended_template
  ELSE SubSeq(r.recommended_template.filename, 1,
              Len(r.recommended_template.filename) - Len(DotMd))

IsRecommendation(r) ==
  /\ "recommended_template" \in DOMAIN r
  /\ IsBuild => r.recommended_template # Null

\* the first candidate that is a catalog key, else the first catalog key
Expected(candidates, keys, first) ==
  IF \E i \in 1..Len(candidates) : candidates[i] \in keys
  THEN candidates[CHOOSE i \in 1..Len(candidates) :
                    /\ candidates[i] \in keys
                    /\ \A j \in 1..(i - 1) : candidates[j] \notin keys]
  ELSE first

\* C2: with a non-empty catalog, suggest_template of the build server returns
\* the first candidate of the priority list that is a catalog key; it falls
\* back to the first catalog entry iff no candidate is a catalog key; 'fix'
\* with the catalog {feature, refactor} gives 'feature' without fallback; a
\* declared type that is a catalog key and heads its own list is returned.
C2_FirstCandidateOrFallback ==
  (Done /\ IsSuggest /\ IsBuild /\ tdir.exists /\ tdir.listing # <<>>) =>
    LET candidates == template_priorities(req.change_type)
        chosen == result.recommended_template
        none_exists == \A i \in 1..Len(candidates) : candidates[i] \notin CatalogKeys
        fallback_used == chosen \notin Range(candidates)
    IN /\ IsRecommendation(result)
       /\ chosen = Expected(candidates, CatalogKeys, FirstCatalogKey)
       /\ result.template.type = chosen
       /\ none_exists => chosen = result.available_templates[1]
       /\ fallback_used <=> none_exists
       /\ (req.change_type = S.fix /\ CatalogKeys = {S.feature, S.refactor}) =>
            (chosen = S.feature /\ ~fallback_used)
       /\ (req.change_type \in CatalogKeys /\ candidates[1] = req.change_type) =>
            (chosen = req.change_type /\ ~fallback_used)

C2_Witness ==
  /\ Done /\ IsSuggest /\ IsBuild
  /\ req.change_type = S.fix
  /\ tdir.exists /\ tdir.unreadable = {}
  /\ tdir.listing = <<S.refactor, S.feature>>
  /\ result.recommended_template = S.feature

\* C6: suggest_template never fails when the catalog is non-empty, and returns
\* an error instead of a recommendation when the catalog is empty.
C6_NeverFailsUnlessEmpty ==
  (Done /\ IsSuggest /\ (IsBuild => tdir.exists)) =>
    IF CatalogKeys # {}
    THEN ~IsError(result) /\ IsRecommendation(result)
    ELSE IsError(result) /\ "recommended_template" \notin DOMAIN result

\* C7: for a type string of the canonical table suggest_template uses the
\* candidate list of the table, for any other string [input, feature, bug]:
\* it recommends what that list selects from the catalog.
C7_CanonicalCandidates ==
  LET \* the priority table of the specification
      CanonicalTable ==
        (S.bug :> <<S.bug, S.feature, S.refactor>>) @@
        (S.fix :> <<S.bug, S.feature, S.refactor>>) @@
        (S.feature :> <<S.feature, S.bug, S.refactor>>) @@
        (S.enhancement :> <<S.feature, S.bug, S.refactor>>) @@
        (S.docs :> <<S.docs, S.feature, S.refactor>>) @@
        (S.documentation :> <<S.docs, S.feature, S.refactor>>) @@
        (S.refactor :> <<S.refactor, S.feature, S.bug>>) @@
        (S.cleanup :> <<S.refactor, S.feature, S.bug>>) @@
        (S.refactoring :> <<S.refactor, S.feature, S.bug>>) @@
        (S.test :> <<S.test, S.feature, S.bug>>) @@
        (S.tests :> <<S.test, S.feature, S.bug>>) @@
        (S.testing :> <<S.test, S.feature, S.bug>>) @@
        (S.performance :> <<S.performance, S.refactor, S.feature>>) @@
        (S.perf :> <<S.performance, S.refactor, S.feature>>) @@
        (S.optimization :> <<S.performance, S.refactor, S.feature>>) @@
        (S.security :> <<S.security, S.bug, S.feature>>) @@
        (S.sec :> <<S.security, S.bug, S.feature>>)
      CanonicalCandidates(change_type) ==
        IF change_type \in DOMAIN CanonicalTable THEN CanonicalTable[change_type]
        ELSE <<change_type, S.feature, S.bug>>
  IN  (/\ Done /\ IsSuggest /\ CatalogLoaded /\ CatalogKeys # {}
       /\ req.change_type = Strip(Lower(req.change_type))) =>
        /\ IsRecommendation(result)
        /\ RecommendedKey(result)
             = Expected(CanonicalCandidates(req.change_type), CatalogKeys, FirstCatalogKey)

\* C11: the recommendation of suggest_template is invariant under letter case
\* and surrounding whitespace of change_type: two change_type strings that are
\* equal after trimming and lower-casing yield the same recommended template.
C11_CaseAndTrimInvariant ==
  LET \* what the server of the request recommends for another change_type
      RecommendationFor(change_type) ==
        IF IsBuild THEN suggest_template(req.changes_summary, change_type, tdir)
        ELSE actions_suggest_template(req.changes_summary, change_type, tdir)
  IN  (Done /\ IsSuggest /\ CatalogLoaded /\ CatalogKeys # {}) =>
        \A other \in ChangeTypes :
          Strip(Lower(other)) = Strip(Lower(req.change_type)) =>
            /\ IsRecommendation(result)
            /\ IsRecommendation(RecommendationFor(other))
            /\ RecommendedKey(result) = RecommendedKey(RecommendationFor(other))

\* C12: every tool call returns a serialized envelope for every input and
\* every collaborator failure (git failing, a template file missing or
\* unreadable, a malformed event log): no exception propagates out of the tool.
C12_AlwaysEnvelope ==
  LET \* the tool returned a serialized value: a result, or an error envelope
      Returned(r) == r # NoResult /\ "exception" \notin DOMAIN r
  IN  Done => Returned(result)

IsGetTemplates == req.op = "get_pr_templates"

\* C13: loading the catalog when the file of one template is missing or
\* unreadable is non-fatal: with an existing template directory the load
\* returns one entry per template, the entry of a template whose file cannot
\* be read carries an error, and every other template is returned with its
\* content.
C13_PerTemplateErrors ==
  LET \* the entries of a returned catalog for the template file of key k
      EntriesOf(r, k) ==
        {i \in 1..Len(r.json_list) : r.json_list[i].filename = k \o DotMd}
  IN  (Done /\ IsGetTemplates /\ tdir.exists) =>
        /\ "json_list" \in DOMAIN result
        /\ Len(result.json_list) = Cardinality(CatalogKeys)
        /\ \A k \in CatalogKeys :
             \E i \in EntriesOf(result, k) :
               LET entry == result.json_list[i]
               IN IF Readable(k, tdir)
                  THEN /\ "error" \notin DOMAIN entry
                       /\ "content" \in DOMAIN entry
                       /\ entry.content = ContentOf(k)
                  ELSE /\ "error" \in DOMAIN entry
                       /\ "content" \notin DOMAIN entry

\* C14: get_pr_templates returns the templates in a fixed canonical key order
\* that does not depend on the order in which the directory is listed: loads
\* over the same files listed in different orders return the same sequence,
\* and suggest_template returns the same result, so the same fallback.
C14_CanonicalOrder ==
  LET \* the same directory listed by glob in another order: two files exchanged
      \* (every order is reached by such exchanges), or the whole listing reversed
      Reordered(td) ==
        LET n == Len(td.listing)
        IN {[td EXCEPT !.listing = [i \in 1..n |-> td.listing[n + 1 - i]]]}
           \cup {[td EXCEPT !.listing = [@ EXCEPT ![a] = td.listing[b], ![b] = td.listing[a]]] :
                   a \in 1..n, b \in 1..n}
      \* what the tool of the request returns over another directory
      ResultOver(td) ==
        IF IsGetTemplates
        THEN IF IsBuild THEN get_pr_templates(td) ELSE actions_get_pr_templates(td)
        ELSE IF IsBuild THEN suggest_template(req.changes_summary, req.change_type, td)
        ELSE actions_suggest_template(req.changes_summary, req.change_type, td)
      \* the catalog is in its canonical order: ascending names in the build
      \* server, the order of DEFAULT_TEMPLATES in the actions server
      InCanonicalOrder(templates) ==
        IF IsBuild
        THEN \A i \in 1..Len(templates) : \A j \in (i + 1)..Len(templates) :
               StrLess(templates[i].name, templates[j].name)
        ELSE /\ Len(templates) = Len(DEFAULT_TEMPLATES)
             /\ \A i \in 1..Len(templates) :
                  templates[i].filename = DEFAULT_TEMPLATES[i][1] \o DotMd
  IN  (Done /\ CatalogLoaded) =>
        /\ \A td \in Reordered(tdir) : ResultOver(td) = result
        /\ IsGetTemplates => InCanonicalOrder(result.json_list)
        /\ (IsSuggest /\ CatalogKeys # {}) => RecommendedKey(result) \in CatalogKeys
        /\ (IsSuggest /\ CatalogKeys # {} /\ req.change_type = S.chore
              /\ S.chore \notin CatalogKeys /\ {S.feature, S.bug} \cap CatalogKeys = {}) =>
             RecommendedKey(result) = FirstCatalogKey

C14_Witness ==
  /\ Done /\ IsBuild /\ IsGetTemplates
  /\ tdir.listing = <<S.test, S.refactor, S.docs>>
  /\ tdir.unreadable = {}
  /\ Len(result.json_list) = 3
  /\ result.json_list[1].name = S.docs
  /\ result.json_list[3].name = S.test

(***************************************************************************)
(* actions server: get_recent_actions_events, get_workflow_status          *)
(***************************************************************************)
MaxEvents == 3

\* the value None of a missing key (dict.get), and a missing timestamp
None == "None"
NoTimestamp == 0 - 1

\* one webhook event of the log: workflow_run says whether the event has a
\* (non-empty) 'workflow_run' object; timestamps are ordered like the
\* ISO-8601 strings of one clock they stand for
Event(wr, name, status, ts) ==
  [workflow_run |-> wr, name |-> name, status |-> status, timestamp |-> ts]

Events ==
  {Event(TRUE, n, s, t) : n \in {"CI", "Deploy"}, s \in {"queued", "completed"},
                          t \in {1, 2}}
  \cup {Event(TRUE, None, "completed", 2), Event(TRUE, "CI", None, 1),
        Event(TRUE, "CI", "queued", NoTimestamp),
        Event(TRUE, "Deploy", "completed", NoTimestamp),
        Event(FALSE, None, None, 1)}

RECURSIVE LogsUpTo(_)
LogsUpTo(n) ==
  IF n = 0 THEN {<<>>}
  ELSE LET shorter == LogsUpTo(n - 1)
       IN shorter \cup {Append(l, e) : l \in {k \in shorter : Len(k) = n - 1},
                                        e \in Events}

\* server.py:205-214
get_recent_actions_events(limit, f) ==
  LET \* seq[-n:] of Python: -0 is 0, so seq[-0:] is the whole sequence
      SliceLast(seq, n) ==
        IF n > 0 THEN SubSeq(seq, Max(1, Len(seq) - n + 1), Len(seq))
        ELSE IF n = 0 THEN seq
        ELSE SubSeq(seq, Min(Len(seq), 0 - n) + 1, Len(seq))
  IN  IF ~f.exists THEN [json_list |-> <<>>]
      ELSE IF ~f.valid THEN [error |-> <<"Expecting value: line 1 column 1 (char 0)">>]
      ELSE [json_list |-> SliceLast(f.events, limit)]

TypeError == [raised |-> TRUE]

\* server.py:236-243: one round of the loop; comparing with None raises
RECURSIVE latest_status(_, _)
latest_status(events, latest) ==
  LET \* server.py:239: event.get('timestamp') > latest_status[workflow].get('timestamp')
      IsLater(timestamp, other) == timestamp > other
  IN  IF events = <<>> THEN latest
      ELSE
        LET event == Head(events)
            workflow == event.name
            entry == [status |-> event.status, timestamp |-> event.timestamp]
        IN IF workflow \notin DOMAIN latest
           THEN latest_status(Tail(events), (workflow :> entry) @@ latest)
           ELSE IF event.timestamp = NoTimestamp \/ latest[workflow].timestamp = NoTimestamp
           THEN TypeError
           ELSE IF IsLater(event.timestamp, latest[workflow].timestamp)
           THEN latest_status(Tail(events), (workflow :> entry) @@ latest)
           ELSE latest_status(Tail(events), latest)

EmptyMapping == [w \in {} |-> None]

\* server.py:224-249
get_workflow_status(workflow_name, f) ==
  LET \* server.py:229-232: the events the loop looks at
      workflow_events(events) ==
        LET with_run == SelectSeq(events, LAMBDA e : e.workflow_run)
        IN IF workflow_name # None
           THEN SelectSeq(with_run, LAMBDA e : e.name = workflow_name)
           ELSE with_run
  IN  IF ~f.exists THEN [mapping |-> EmptyMapping]
      ELSE IF ~f.valid THEN [error |-> <<"Expecting value: line 1 column 1 (char 0)">>]
      ELSE LET latest == latest_status(workflow_events(f.events),
                                       EmptyMapping)
           IN IF latest = TypeError
              THEN [error |-> <<"'>' not supported between instances of 'NoneType' and 'str'">>]
              ELSE [mapping |-> latest]

(***************************************************************************)
(* Requests and the state machine of the event tools.                      *)
(***************************************************************************)
InitEvents ==
  LET \* the file github_events.json: absent, not JSON, or a JSON list of events
      EventFiles ==
        {[exists |-> FALSE, valid |-> TRUE, events |-> <<>>],
         [exists |-> TRUE, valid |-> FALSE, events |-> <<>>]}
        \cup {[exists |-> TRUE, valid |-> TRUE, events |-> l] : l \in LogsUpTo(MaxEvents)}
  IN  /\ req \in [op : {"get_workflow_status"}, server : {"actions"},
                  workflow_name : {None, "CI", "Deploy"}]
                   \cup [op : {"get_recent_actions_events"}, server : {"actions"},
                         limit : (0 - 1)..MaxEvents]
      /\ evfile \in EventFiles
      /\ git = GitIdle
      /\ tdir = TdirIdle
      /\ gemini = GeminiIdle
      /\ result = NoResult
      /\ cmds = <<>>
      /\ prompts = <<>>
      /\ reader = ReaderIdle
      /\ history = <<>>
      /\ pc = "idle"

GetRecentActionsEvents ==
  /\ pc = "idle"
  /\ req.op = "get_recent_actions_events"
  /\ result' = get_recent_actions_events(req.limit, evfile)
  /\ pc' = "done"
  /\ UNCHANGED <<req, git, tdir, evfile, gemini, cmds, prompts, reader, history>>

GetWorkflowStatus ==
  /\ pc = "idle"
  /\ req.op = "get_workflow_status"
  /\ result' = get_workflow_status(req.workflow_name, evfile)
  /\ pc' = "done"
  /\ UNCHANGED <<req, git, tdir, evfile, gemini, cmds, prompts, reader, history>>

NextEvents == GetRecentActionsEvents \/ GetWorkflowStatus

SpecEvents == InitEvents /\ [][NextEvents]_vars

(***************************************************************************)
(* Observers of a finished get_workflow_status request.                    *)
(***************************************************************************)
IsWorkflowStatus == req.op = "get_workflow_status"

\* C5: get_workflow_status maps each workflow to the status and timestamp of
\* its event with the greatest timestamp, whatever its position in the log;
\* among events with equal greatest timestamps the last in log order wins.
C5_LatestByTimestamp ==
  LET \* every event of the log is a complete WorkflowEvent
      WellFormed(events) ==
        \A i \in 1..Len(events) :
          /\ events[i].workflow_run
          /\ events[i].name # None
          /\ events[i].status # None
          /\ events[i].timestamp # NoTimestamp
      \* the positions of the events of workflow w
      EventsOf(events, w) == {i \in 1..Len(events) : events[i].name = w}
      \* the position that decides workflow w as claimed: greatest timestamp, and
      \* the last one in log order among equals
      LastGreatest(events, w) ==
        CHOOSE i \in EventsOf(events, w) :
          \A j \in EventsOf(events, w) :
            \/ events[j].timestamp < events[i].timestamp
            \/ events[j].timestamp = events[i].timestamp /\ j <= i
  IN  (Done /\ IsWorkflowStatus /\ req.workflow_name = None
         /\ evfile.exists /\ evfile.valid /\ WellFormed(evfile.events)) =>
        /\ "mapping" \in DOMAIN result
        /\ DOMAIN result.mapping = {evfile.events[i].name : i \in 1..Len(evfile.events)}
        /\ \A w \in DOMAIN result.mapping :
             LET e == evfile.events[LastGreatest(evfile.events, w)]
             IN result.mapping[w] = [status |-> e.status, timestamp |-> e.timestamp]

\* C27: filtering commutes with correlation: for every event log and every
\* workflow name w, get_workflow_status(w) returns a mapping whose only
\* possible key is w, and its entry for w is the entry for w of the unfiltered
\* get_workflow_status() on the same log (absent exactly when that is absent).
C27_FilterCommutes ==
  (Done /\ IsWorkflowStatus /\ req.workflow_name # None
     /\ evfile.exists /\ evfile.valid /\ "mapping" \in DOMAIN result) =>
    LET w == req.workflow_name
        unfiltered == get_workflow_status(None, evfile)
    IN /\ "mapping" \in DOMAIN unfiltered
       /\ DOMAIN result.mapping \subseteq {w}
       /\ (w \in DOMAIN result.mapping) <=> (w \in DOMAIN unfiltered.mapping)
       /\ w \in DOMAIN result.mapping => result.mapping[w] = unfiltered.mapping[w]

(***************************************************************************)
(* Observers of a finished get_recent_actions_events request.              *)
(***************************************************************************)
\* C15: for every limit >= 0 and every event log of n events,
\* get_recent_actions_events returns exactly the min(limit, n) most recent
\* events (the last ones in log order), in log order.
C15_MostRecentEvents ==
  LET IsRecentEvents == req.op = "get_recent_actions_events"
      MostRecent(events, k) == SubSeq(events, Len(events) - k + 1, Len(events))
  IN  (Done /\ IsRecentEvents /\ req.limit >= 0 /\ evfile.exists /\ evfile.valid) =>
        /\ "json_list" \in DOMAIN result
        /\ result.json_list = MostRecent(evfile.events, Min(req.limit, Len(evfile.events)))


\* C16: get_workflow_status skips events that lack a workflow name or a
\* status: such an event never creates or updates an entry of the returned
\* mapping and never turns the call into an error, so the call returns what it
\* returns on the log without these events.
C16_SkipsIncompleteEvents ==
  LET \* the event has a workflow name and a status
      HasNameAndStatus(e) == e.workflow_run /\ e.name # None /\ e.status # None
  IN  (Done /\ IsWorkflowStatus /\ evfile.exists /\ evfile.valid) =>
        result = get_workflow_status(
                   req.workflow_name,
                   [evfile EXCEPT !.events = SelectSeq(@, HasNameAndStatus)])


\* C17: when the event log is unreadable or malformed, get_workflow_status
\* treats it as empty: it returns the empty mapping, the same result as for an
\* absent or empty log, and not an error.
C17_UnreadableLogIsEmpty ==
  (Done /\ IsWorkflowStatus /\ (~evfile.exists \/ ~evfile.valid \/ evfile.events = <<>>)) =>
    /\ ~IsError(result)
    /\ result = [mapping |-> EmptyMapping]

(***************************************************************************)
(* The event tools read the log while the webhook process writes it.  A    *)
(* call is followed step by step: the test that the file exists, the open, *)
(* each read of json.load up to the one that meets the end of the file,    *)
(* and the computation of the result.  The text of the file is a sequence  *)
(* of tokens: the brackets and commas of the JSON list and one token per   *)
(* event.  The writer is the separate ingestion process that the           *)
(* specification describes: it makes the log grow in place by one event,   *)
(* or replaces the file under its name by another complete log.            *)
(***************************************************************************)
MaxWrites == 2

\* json.dumps of a list of events, as the tokens of the file
Serialize(events) ==
  LET Comma(i) == IF i = 1 THEN <<>> ELSE <<[tok |-> ","]>>
      RECURSIVE Items(_)
      Items(i) ==
        IF i > Len(events) THEN <<>>
        ELSE Comma(i) \o <<[tok |-> "event", event |-> events[i]]>> \o Items(i + 1)
  IN <<[tok |-> "["]>> \o Items(1) \o <<[tok |-> "]"]>>

\* server.py:207-208, 226-227: json.load of the text that was read; a text
\* that is no JSON list makes it raise
read_events(buf) ==
  LET items == SelectSeq(buf, LAMBDA t : t.tok = "event")
      events == [i \in 1..Len(items) |-> items[i].event]
  IN [exists |-> TRUE, valid |-> buf = Serialize(events), events |-> events]

\* what the tool of a request returns over a loaded log
log_tool(r, f) ==
  IF r.op = "get_workflow_status" THEN get_workflow_status(r.workflow_name, f)
  ELSE get_recent_actions_events(r.limit, f)

\* the log as one complete content of the file
Snapshot(f) == [exists |-> f.exists, valid |-> TRUE, events |-> f.events]

InitLog ==
  LET first == Event(TRUE, "CI", "queued", 1)
  IN  /\ req \in [op : {"get_workflow_status"}, server : {"actions"},
                  workflow_name : {None}]
                   \cup [op : {"get_recent_actions_events"}, server : {"actions"},
                         limit : {MaxEvents}]
      /\ evfile \in {[exists |-> FALSE, valid |-> TRUE, events |-> <<>>, inode |-> 0],
                     [exists |-> TRUE, valid |-> TRUE, events |-> <<>>, inode |-> 0],
                     [exists |-> TRUE, valid |-> TRUE, events |-> <<first>>, inode |-> 0]}
      /\ history = <<Snapshot(evfile)>>
      /\ reader = ReaderIdle
      /\ git = GitIdle
      /\ tdir = TdirIdle
      /\ gemini = GeminiIdle
      /\ result = NoResult
      /\ cmds = <<>>
      /\ prompts = <<>>
      /\ pc = "idle"

\* server.py:206, 225: if EVENTS_FILE.exists(), else the empty result
CheckExists ==
  /\ pc = "idle"
  /\ IF evfile.exists
     THEN pc' = "open" /\ UNCHANGED result
     ELSE pc' = "done" /\ result' = log_tool(req, evfile)
  /\ UNCHANGED <<req, git, tdir, evfile, gemini, cmds, prompts, reader, history>>

\* server.py:207, 226: open(EVENTS_FILE, 'r')
OpenLog ==
  /\ pc = "open"
  /\ reader' = [ReaderIdle EXCEPT !.fd = TRUE, !.inode = evfile.inode]
  /\ pc' = "reading"
  /\ UNCHANGED <<req, git, tdir, evfile, gemini, result, cmds, prompts, history>>

\* the text of the open file, from the position of the reader on
Unread ==
  LET text == IF reader.detached THEN reader.old ELSE Serialize(evfile.events)
  IN SubSeq(text, Len(reader.buf) + 1, Len(text))

\* server.py:208, 227: a read of json.load that returns some of the text
ReadMore ==
  /\ pc = "reading"
  /\ \E k \in 1..Len(Unread) :
       reader' = [reader EXCEPT !.buf = @ \o SubSeq(Unread, 1, k)]
  /\ UNCHANGED <<req, git, tdir, evfile, gemini, result, cmds, prompts, pc, history>>

\* server.py:208-214, 227-249: the read that meets the end of the file, and
\* the rest of the tool
ReadEof ==
  /\ pc = "reading"
  /\ Unread = <<>>
  /\ result' = log_tool(req, read_events(reader.buf))
  /\ reader' = [reader EXCEPT !.fd = FALSE]
  /\ pc' = "done"
  /\ UNCHANGED <<req, git, tdir, evfile, gemini, cmds, prompts, history>>

\* the writer appends one event: the file grows in place (it is created when
\* it is missing)
WriterAppend ==
  /\ Len(history) <= MaxWrites
  /\ \E e \in {Event(TRUE, "CI", "completed", 2), Event(TRUE, "Deploy", "queued", 2)} :
       evfile' = [evfile EXCEPT !.exists = TRUE, !.events = Append(@, e)]
  /\ history' = Append(history, Snapshot(evfile'))
  /\ UNCHANGED <<req, git, tdir, gemini, result, cmds, prompts, pc, reader>>

\* the writer replaces the log: the name refers to a new file with a complete
\* log; a reader that has the old file open keeps reading the old file
WriterReplace ==
  /\ Len(history) <= MaxWrites
  /\ \E events \in {<<>>, <<Event(TRUE, "CI", "completed", 2)>>} :
       evfile' = [evfile EXCEPT !.exists = TRUE, !.events = events, !.inode = @ + 1]
  /\ reader' = IF reader.fd /\ ~reader.detached
               THEN [reader EXCEPT !.detached = TRUE, !.old = Serialize(evfile.events)]
               ELSE reader
  /\ history' = Append(history, Snapshot(evfile'))
  /\ UNCHANGED <<req, git, tdir, gemini, result, cmds, prompts, pc>>

NextLog ==
  CheckExists \/ OpenLog \/ ReadMore \/ ReadEof \/ WriterAppend \/ WriterReplace

SpecLog == InitLog /\ [][NextLog]_vars

Contains(s, sub) ==
  \E i \in 1..(Len(s) - Len(sub) + 1) : SubSeq(s, i, i + Len(sub) - 1) = sub

\* any(indicator in filename_lower for indicator in indicators)
has_indicator(filename_lower, indicators) ==
  \E indicator \in indicators : Contains(filename_lower, indicator)

\* the counter of a key set to 1 whatever it was
count_up_Reset(counts, key) == (key :> 1) @@ counts

\* gemini_service.py:175, 178: counts[key] = counts.get(key, 0) + 1
count_up(counts, key) ==
  IF key \in DOMAIN counts THEN [counts EXCEPT ![key] = @ + 1]
  ELSE (key :> 1) @@ counts

\* the loop of lines 168-178 over the keys of one counter
RECURSIVE count_all(_, _)
count_all(keys, counts) ==
  IF keys = <<>> THEN counts
  ELSE count_all(Tail(keys), count_up(counts, Head(keys)))

extension(filename) ==
  LET parts == Split(filename, ".") IN Lower(parts[Len(parts)])

directory(filename) == Split(filename, "/")[1]

\* gemini_service.py:156-197, GeminiService._analyze_file_patterns; the order
\* of the list made of the set of directories depends on the string hashes of
\* the process (hashseed): two of the orders are modelled
analyze_file_patterns(file_infos, hashseed) ==
  LET EmptyCounts == [k \in {} |-> 0]
      \* gemini_service.py:195: list(patterns["directories"])
      list_of_set(set) ==
        LET n == Cardinality(set)
            Rank(x) == Cardinality({y \in set : StrLess(y, x)})
        IN [i \in 1..n |->
              CHOOSE x \in set : Rank(x) = IF hashseed = 0 THEN i - 1 ELSE n - i]
  IN  LET filenames == [i \in 1..Len(file_infos) |-> file_infos[i].filename]
          with_ext == SelectSeq(filenames, LAMBDA f : "." \in Range(f))
      IN [total_files |-> Len(file_infos),
          file_types |->
            count_all([i \in 1..Len(with_ext) |-> extension(with_ext[i])], EmptyCounts),
          change_types |->
            count_all([i \in 1..Len(file_infos) |-> file_infos[i].status],
                      EmptyCounts),
          directories |->
            list_of_set(
              {directory(f) : f \in {n \in Range(filenames) : "/" \in Range(n)}}),
          has_tests |->
            \E f \in Range(filenames) :
              has_indicator(Lower(f),
                {<<"t", "e", "s", "t">>, <<"s", "p", "e", "c">>,
                 <<"_", "_", "t", "e", "s", "t", "_", "_">>}),
          has_docs |->
            \E f \in Range(filenames) :
              has_indicator(Lower(f),
                {<<"r", "e", "a", "d", "m", "e">>, <<"d", "o", "c">>, <<".", "m", "d">>,
                 <<"c", "h", "a", "n", "g", "e", "l", "o", "g">>}),
          has_config |->
            \E f \in Range(filenames) :
              has_indicator(Lower(f),
                {<<"c", "o", "n", "f", "i", "g">>, <<"s", "e", "t", "t", "i", "n", "g", "s">>,
                 <<".", "j", "s", "o", "n">>, <<".", "y", "a", "m", "l">>,
                 <<".", "t", "o", "m", "l">>, <<".", "e", "n", "v">>})]

\* gemini_service.py:99-154: what the prompt is made of
create_analysis_prompt(diff_content, file_infos, templates, hashseed) ==
  [changed_files |-> file_infos,
   file_analysis |-> analyze_file_patterns(file_infos, hashseed),
   template_names |->
     [i \in 1..Len(templates) |->
        IF "name" \in DOMAIN templates[i] THEN templates[i].name
        ELSE <<"unknown">>],
   diff |-> SliceTo(diff_content, 3000)]

\* the markers of a markdown code block (three backquotes, followed by json
\* or not), each one token of the reply text
FenceJson == "[fence]json"
Fence == "[fence]"

\* gemini_service.py:199-236: a reply that is no JSON gives the fallback
\* analysis; a JSON document that is no object raises TypeError on line 220
parse_analysis_response(text) ==
  LET \* json.loads on the documents a reply may hold, each one token of the text
      JsonDocuments ==
        ("{test, high}" :>
           [change_type |-> S.test, summary |-> <<"Adds unit tests">>,
            recommended_template |-> S.test, confidence |-> <<"high">>]) @@
        ("{feature, medium}" :>
           [change_type |-> S.feature, summary |-> <<"Adds an endpoint">>,
            recommended_template |-> S.feature, confidence |-> <<"medium">>]) @@
        ("{summary only}" :> [summary |-> <<"Changes">>]) @@
        ("[]" :> [json_list |-> <<>>])
  IN  LET stripped == Strip(text)
          no_json_fence ==
            IF stripped # <<>> /\ stripped[1] = FenceJson THEN Tail(stripped)
            ELSE stripped
          no_fence ==
            IF no_json_fence # <<>> /\ no_json_fence[1] = Fence THEN Tail(no_json_fence)
            ELSE no_json_fence
          response_text ==
            IF no_fence # <<>> /\ no_fence[Len(no_fence)] = Fence
            THEN SubSeq(no_fence, 1, Len(no_fence) - 1)
            ELSE no_fence
          document == Strip(response_text)
      IN IF Len(document) = 1 /\ document[1] \in DOMAIN JsonDocuments
         THEN LET analysis == JsonDocuments[document[1]]
                  required_fields == {"change_type", "summary", "recommended_template"}
              IN IF "json_list" \in DOMAIN analysis THEN TypeError
                 ELSE analysis @@ [field \in required_fields \ DOMAIN analysis |->
                                     <<"unknown">>]
         ELSE [change_type |-> <<"unknown">>,
               summary |-> <<"Unable to analyze changes automatically">>,
               recommended_template |-> S.feature,
               confidence |-> <<"low">>,
               error |-> <<"Failed to parse AI response">>,
               raw_response |-> response_text]

\* gemini_service.py:58-97, GeminiService.analyze_code_changes
analyze_code_changes(diff_content, file_infos, templates, gm) ==
  IF ~gm.available
  THEN [error |-> <<"Gemini AI service is not available">>, fallback |-> TRUE]
  ELSE IF gm.raises
  THEN [error |-> <<"Analysis failed: ", "503 Service Unavailable">>,
        fallback |-> TRUE]
  ELSE LET analysis == parse_analysis_response(gm.text)
       IN IF analysis = TypeError
          THEN [error |-> <<"Analysis failed: ",
                            "list indices must be integers or slices, not str">>,
                fallback |-> TRUE]
          ELSE [success |-> TRUE, analysis |-> analysis,
                model_used |-> <<"gemini-1.5-flash">>]

(***************************************************************************)
(* build server: analyze_with_gemini                                       *)
(***************************************************************************)
\* server.py:361-375: the changes and the templates the analysis works on
gemini_changes_data(include_diff, base_branch, g) ==
  analyze_file_changes(base_branch, include_diff, 300, g)

gemini_templates_data(td) ==
  LET templates_result == get_pr_templates(td)
  IN IF IsError(templates_result) THEN <<>> ELSE templates_result.json_list

\* changes_data.get("diff", "")
gemini_diff_content(changes_data) ==
  IF "diff" \in DOMAIN changes_data THEN changes_data.diff ELSE <<>>

\* server.py:344-398
analyze_with_gemini(include_diff, base_branch, g, td, gm) ==
  IF ~gm.available
  THEN [error |-> "Gemini AI service is not available",
        details |-> <<"Check API key configuration and network connectivity">>]
  ELSE LET changes_data == gemini_changes_data(include_diff, base_branch, g)
           templates_data == gemini_templates_data(td)
       IN IF IsError(changes_data)
          THEN [error |-> "Failed to get changes for analysis",
                details |-> changes_data]
          ELSE [gemini_analysis |->
                  analyze_code_changes(gemini_diff_content(changes_data),
                                       changes_data.files, templates_data, gm),
                file_changes |-> changes_data,
                available_templates |->
                  [i \in 1..Len(templates_data) |-> templates_data[i].type],
                analysis_timestamp |-> <<"2025-01-01T00:00:00+00:00">>]

\* the prompts the tool sends to the model: one, once the changes are known
analyze_with_gemini_prompts(include_diff, base_branch, g, td, gm) ==
  LET changes_data == gemini_changes_data(include_diff, base_branch, g)
  IN IF gm.available /\ ~IsError(changes_data)
     THEN <<create_analysis_prompt(gemini_diff_content(changes_data),
                                   changes_data.files, gemini_templates_data(td),
                                   gm.hashseed)>>
     ELSE <<>>

\* the commands the tool runs, in order
analyze_with_gemini_cmds(include_diff, base_branch, g, gm) ==
  IF ~gm.available THEN <<>>
  ELSE analyze_file_changes_cmds(include_diff, g)
         \o (IF IsError(gemini_changes_data(include_diff, base_branch, g))
             THEN <<>> ELSE <<"date">>)

(***************************************************************************)
(* build server: generate_comprehensive_pr                                 *)
(***************************************************************************)
\* server.py:268-341; git applies the limit, g.log is what it prints
get_commit_history(limit, base_branch, g) ==
  LET \* server.py:304-312: one commit per line "hash message"
      RECURSIVE parse_commits(_)
      parse_commits(lines) ==
        IF lines = <<>> THEN <<>>
        ELSE LET line == Head(lines)
                 i == IndexOf(line, SP)
             IN (IF line # <<>> /\ i # 0
                 THEN <<[hash |-> SubSeq(line, 1, i - 1),
                         message |-> SubSeq(line, i + 1, Len(line))]>>
                 ELSE <<>>) \o parse_commits(Tail(lines))
  IN  IF ~g.launch
      THEN [error |-> "Failed to get commit history", details |-> <<"No such file: git">>]
      ELSE IF g.log.exit # 0
      THEN [error |-> "Failed to get commit history", details |-> Strip(g.log.stderr)]
      ELSE LET commits == parse_commits(Split(Strip(g.log.stdout), NL))
           IN [base_branch |-> base_branch,
               commits_found |-> Len(commits),
               commits |-> commits,
               latest_commit_details |->
                 IF commits # <<>> /\ g.show.exit = 0 THEN g.show.stdout ELSE Null]

\* the git commands get_commit_history runs, in order
get_commit_history_cmds(g) ==
  IF ~g.launch THEN <<>>
  ELSE IF g.log.exit # 0 THEN <<"log">>
  ELSE IF get_commit_history(5, "main", g).commits # <<>> THEN <<"log", "show">>
  ELSE <<"log">>

\* dict.get(key, default)
Get(dict, key, default) == IF key \in DOMAIN dict THEN dict[key] ELSE default

\* gemini_service.py:278-320: what the prompt is made of
create_pr_description_prompt(analysis_result, template_content) ==
  [analysis |-> Get(analysis_result, "analysis", EmptyMapping),
   template |-> IF template_content # <<>> THEN SliceTo(template_content, 1000)
                ELSE <<"No template provided">>]

\* gemini_service.py:322-374: a reply that is no JSON gives the fallback
\* description; a JSON document that is no object raises TypeError on line 353
parse_pr_description_response(text) ==
  LET stripped == Strip(text)
      no_json_fence ==
        IF stripped # <<>> /\ stripped[1] = FenceJson THEN Tail(stripped) ELSE stripped
      no_fence ==
        IF no_json_fence # <<>> /\ no_json_fence[1] = Fence THEN Tail(no_json_fence)
        ELSE no_json_fence
      response_text ==
        IF no_fence # <<>> /\ no_fence[Len(no_fence)] = Fence
        THEN SubSeq(no_fence, 1, Len(no_fence) - 1)
        ELSE no_fence
      document == Strip(response_text)
      defaults ==
        [title |-> <<"Pull Request">>,
         summary |-> <<"Changes made to the codebase">>,
         estimated_review_time |-> <<"15-30 minutes">>]
  IN IF document = <<"{title}">>
     THEN [title |-> <<"Add uploader retry">>] @@ defaults
     ELSE IF document = <<"[]">>
     THEN TypeError
     ELSE [title |-> <<"Pull Request - Auto Generated">>,
           summary |-> <<"Unable to generate description automatically">>,
           estimated_review_time |-> <<"30+ minutes">>,
           error |-> <<"Failed to parse AI response">>,
           raw_response |-> response_text]

\* gemini_service.py:238-276, GeminiService.generate_pr_description
generate_pr_description(analysis_result, template_content, gm) ==
  IF ~gm.available
  THEN [error |-> <<"Gemini AI service is not available">>, fallback |-> TRUE]
  ELSE IF gm.description.raises
  THEN [error |-> <<"PR description generation failed: ", "503 Service Unavailable">>,
        fallback |-> TRUE]
  ELSE LET pr_description == parse_pr_description_response(gm.description.text)
       IN IF pr_description = TypeError
          THEN [error |-> <<"PR description generation failed: ",
                            "list indices must be integers or slices, not str">>,
                fallback |-> TRUE]
          ELSE [success |-> TRUE, pr_description |-> pr_description,
                model_used |-> <<"gemini-1.5-flash">>,
                based_on_analysis |-> Get(analysis_result, "analysis", EmptyMapping)]

Auto == <<"a", "u", "t", "o">>

\* server.py:420-438: step 3, the template chosen and its content
comprehensive_template(template_type, analysis_data, td) ==
  LET gemini_analysis ==
        Get(Get(analysis_data, "gemini_analysis", EmptyMapping), "analysis", EmptyMapping)
      recommended_template ==
        IF template_type = Auto
        THEN Get(gemini_analysis, "recommended_template", S.feature)
        ELSE template_type
      templates_data == get_pr_templates(td)
      matching ==
        IF IsError(templates_data) THEN <<>>
        ELSE SelectSeq(templates_data.json_list,
                       LAMBDA template : template.type = recommended_template)
  IN [recommended_template |-> recommended_template,
      template_content |->
        IF matching = <<>> THEN <<>> ELSE Get(matching[1], "content", <<>>)]

\* server.py:449-464: the result of the tool, from what its steps returned
comprehensive_result(analysis_data, history_data, template, pr_description_result) ==
  LET analysis == Get(Get(analysis_data, "gemini_analysis", EmptyMapping),
                      "analysis", EmptyMapping)
  IN [analysis |-> analysis_data,
      commit_history |-> history_data,
      recommended_template |-> template.recommended_template,
      template_content |-> template.template_content,
      pr_description |-> pr_description_result,
      generation_timestamp |-> <<"2025-01-01T00:00:00+00:00">>,
      summary |->
        [files_changed |->
           Get(Get(analysis_data, "file_changes", EmptyMapping), "files_changed", 0),
         change_type |-> Get(analysis, "change_type", <<"unknown">>),
         confidence |-> Get(analysis, "confidence", <<"unknown">>),
         complexity |-> Get(analysis, "complexity_score", <<"unknown">>),
         estimated_review_time |->
           Get(Get(pr_description_result, "pr_description", EmptyMapping),
               "estimated_review_time", <<"unknown">>)]]

\* server.py:440-464: step 4, the description from the analysis and the
\* template, and the result
comprehensive_description(analysis_data, history_data, template, gm) ==
  comprehensive_result(analysis_data, history_data, template,
                       generate_pr_description(
                         Get(analysis_data, "gemini_analysis", EmptyMapping),
                         template.template_content, gm))

\* server.py:412-464: what follows the analysis of step 1
after_analysis(analysis_data, base_branch, template_type, g, td, gm) ==
  IF IsError(analysis_data)
  THEN [error |-> "Failed to analyze changes", details |-> analysis_data]
  ELSE comprehensive_description(analysis_data,
                                 get_commit_history(5, base_branch, g),
                                 comprehensive_template(template_type, analysis_data, td),
                                 gm)

\* server.py:401-472
generate_comprehensive_pr(base_branch, template_type, g, td, gm) ==
  after_analysis(analyze_with_gemini(TRUE, base_branch, g, td, gm),
                 base_branch, template_type, g, td, gm)

\* the prompt of the description call, when the analysis lets the tool go on
description_prompts(analysis_data, template_type, td) ==
  IF IsError(analysis_data) THEN <<>>
  ELSE <<create_pr_description_prompt(
           Get(analysis_data, "gemini_analysis", EmptyMapping),
           comprehensive_template(template_type, analysis_data, td).template_content)>>

\* the prompts the tool sends to the model, in order
generate_comprehensive_pr_prompts(base_branch, template_type, g, td, gm) ==
  analyze_with_gemini_prompts(TRUE, base_branch, g, td, gm)
    \o description_prompts(analyze_with_gemini(TRUE, base_branch, g, td, gm),
                           template_type, td)

\* the commands the tool runs, in order
generate_comprehensive_pr_cmds(base_branch, g, td, gm) ==
  analyze_with_gemini_cmds(TRUE, base_branch, g, gm)
    \o (IF IsError(analyze_with_gemini(TRUE, base_branch, g, td, gm)) THEN <<>>
        ELSE get_commit_history_cmds(g) \o <<"date">>)

(***************************************************************************)
(* Requests and the state machine of the change analysis of the build      *)
(* server: analyze_file_changes on any name-status output,                 *)
(* analyze_with_gemini and generate_comprehensive_pr.                      *)
(***************************************************************************)
MaxNsLen == 5
MaxFiles == 2

\* the lines git prints for these files
NameStatusLines ==
  LET FileNames ==
        {<<"a", "_", "t", "e", "s", "t", ".", "p", "y">>,
         <<"R", "E", "A", "D", "M", "E", ".", "m", "d">>,
         <<"d", "o", "c", "s", "/", "i", "n", "t", "r", "o", ".", "M", "D">>,
         <<"s", "r", "c", "/", "a", "p", "p", ".", "p", "y">>,
         <<"M", "a", "k", "e", "f", "i", "l", "e">>,
         <<"c", "f", "g", "/", "a", ".", "y", "a", "m", "l">>}
  IN  {status \o <<TAB>> \o name \o <<NL>> : status \in {<<"A">>, <<"M">>},
                                            name \in FileNames}

\* the name-status outputs of exactly n such lines, and of up to n
RECURSIVE ListingsOfLines(_)
ListingsOfLines(n) ==
  IF n = 0 THEN {<<>>}
  ELSE {t \o line : t \in ListingsOfLines(n - 1), line \in NameStatusLines}

FileListings(n) == UNION {ListingsOfLines(k) : k \in 0..n}

InitChanges ==
  LET NsParseRuns ==
        {Ran(0, t, <<>>) :
           t \in TextsUpTo({"M", "f", TAB, NL}, MaxNsLen) \cup FileListings(MaxFiles)}
        \cup {Ran(128, <<>>, ErrNs)}
      GeminiGitRuns ==
        {g \in {[GitIdle EXCEPT !.ns = n, !.diff = d] :
                  n \in {Ran(0, t, <<>>) : t \in FileListings(MaxFiles)}
                          \cup {Ran(128, <<>>, ErrNs)},
                  d \in {Ran(0, <<>>, <<>>), Ran(0, <<"a", NL, "b", NL>>, <<>>),
                         Ran(128, <<>>, ErrDiff)}} :
            SameRepository(g.ns, g.diff)}
        \cup {[GitIdle EXCEPT !.launch = FALSE]}
      \* the Gemini service: not configured; configured with the call failing;
      \* configured and answering, in a process with either hash seed
      GeminiServices ==
        {GeminiIdle, [GeminiIdle EXCEPT !.available = TRUE, !.raises = TRUE]}
        \cup {[GeminiIdle EXCEPT !.available = TRUE, !.text = t, !.hashseed = h] :
                h \in {0, 1},
                t \in {<<"{test, high}">>,
                       <<FenceJson, NL, "{feature, medium}", NL, Fence>>,
                       <<Fence, NL, "{summary only}", NL, Fence, NL>>,
                       <<"I cannot analyze this change.">>,
                       <<"[]">>}}
      GeminiTemplateDirs ==
        {[exists |-> FALSE, listing |-> <<>>, unreadable |-> {}],
         [exists |-> TRUE, listing |-> <<S.feature, S.bug>>, unreadable |-> {}]}
  IN  /\ \/ /\ req \in [op : {"analyze_file_changes"}, server : {"build"},
                        base_branch : {"main"}, include_diff : {FALSE},
                        max_diff_lines : {MaxBudget}]
            /\ git \in {[GitIdle EXCEPT !.ns = n] : n \in NsParseRuns}
            /\ gemini = GeminiIdle
            /\ tdir = TdirIdle
         \/ /\ req \in [op : {"analyze_with_gemini"}, server : {"build"},
                        base_branch : {"main"}, include_diff : BOOLEAN]
            /\ git \in GeminiGitRuns
            /\ gemini \in GeminiServices
            /\ tdir \in GeminiTemplateDirs
      /\ evfile = EvfileIdle
      /\ result = NoResult
      /\ cmds = <<>>
      /\ prompts = <<>>
      /\ reader = ReaderIdle
      /\ history = <<>>
      /\ pc = "idle"

AnalyzeWithGemini ==
  /\ pc = "idle"
  /\ req.op = "analyze_with_gemini"
  /\ result' = analyze_with_gemini(req.include_diff, req.base_branch, git, tdir, gemini)
  /\ prompts' = analyze_with_gemini_prompts(req.include_diff, req.base_branch,
                                            git, tdir, gemini)
  /\ cmds' = analyze_with_gemini_cmds(req.include_diff, req.base_branch, git, gemini)
  /\ pc' = "done"
  /\ UNCHANGED <<req, git, tdir, evfile, gemini, reader, history>>

NextChanges == AnalyzeFileChanges \/ AnalyzeWithGemini

SpecChanges == InitChanges /\ [][NextChanges]_vars

(***************************************************************************)
(* Requests and the state machine of generate_comprehensive_pr.            *)
(***************************************************************************)
InitGenerate ==
  LET \* the service at the analysis call
      AnalysisServices ==
        {GeminiIdle, [GeminiIdle EXCEPT !.available = TRUE, !.raises = TRUE]}
        \cup {[GeminiIdle EXCEPT !.available = TRUE, !.text = t] :
                t \in {<<"{test, high}">>,
                       <<FenceJson, NL, "{feature, medium}", NL, Fence>>,
                       <<Fence, NL, "{summary only}", NL, Fence, NL>>,
                       <<"I cannot analyze this change.">>,
                       <<"[]">>}}
      GenerateTemplateDirs ==
        {[exists |-> FALSE, listing |-> <<>>, unreadable |-> {}],
         [exists |-> TRUE, listing |-> <<S.feature, S.bug>>, unreadable |-> {}]}
      \* the git outcomes of generate_comprehensive_pr: the change queries, the
      \* commit log (empty, one commit, failing) and git show
      GenerateGitRuns ==
        {g \in {[GitIdle EXCEPT !.ns = n, !.diff = d, !.log = l, !.show = s] :
                  n \in {Ran(0, <<>>, <<>>),
                         Ran(0, <<"A", TAB, "a", "_", "t", "e", "s", "t", ".", "p", "y", NL>>,
                             <<>>),
                         Ran(128, <<>>, ErrNs)},
                  d \in {Ran(0, <<>>, <<>>), Ran(0, <<"a", NL, "b", NL>>, <<>>),
                         Ran(128, <<>>, ErrDiff)},
                  l \in {Ran(0, <<>>, <<>>),
                         Ran(0, <<"a", "b", "c", "1", SP, "m", "s", "g", NL>>, <<>>),
                         Ran(128, <<>>, <<"fatal: log", NL>>)},
                  s \in {Ran(0, <<"commit abc1", NL>>, <<>>),
                         Ran(128, <<>>, <<"fatal: show", NL>>)}} :
            SameRepository(g.ns, g.diff)}
        \cup {[GitIdle EXCEPT !.launch = FALSE]}
      \* the service during generate_comprehensive_pr: the outcome of the
      \* analysis call and the outcome of the description call
      GenerateServices ==
        {[gm EXCEPT !.description = d] :
           gm \in AnalysisServices,
           d \in {[raises |-> TRUE, text |-> <<>>]}
                   \cup {[raises |-> FALSE, text |-> t] :
                           t \in {<<FenceJson, NL, "{title}", NL, Fence>>,
                                  <<"Sorry, no description.">>,
                                  <<"[]">>}}}
  IN  /\ req \in [op : {"generate_comprehensive_pr"}, server : {"build"},
                  base_branch : {"main"}, template_type : {Auto, S.bug}]
      /\ git \in GenerateGitRuns
      /\ gemini \in GenerateServices
      /\ tdir \in GenerateTemplateDirs
      /\ evfile = EvfileIdle
      /\ result = NoResult
      /\ cmds = <<>>
      /\ prompts = <<>>
      /\ reader = ReaderIdle
      /\ history = <<>>
      /\ pc = "idle"

GenerateComprehensivePr ==
  /\ pc = "idle"
  /\ req.op = "generate_comprehensive_pr"
  /\ result' = generate_comprehensive_pr(req.base_branch, req.template_type,
                                         git, tdir, gemini)
  /\ prompts' = generate_comprehensive_pr_prompts(req.base_branch, req.template_type,
                                                  git, tdir, gemini)
  /\ cmds' = generate_comprehensive_pr_cmds(req.base_branch, git, tdir, gemini)
  /\ pc' = "done"
  /\ UNCHANGED <<req, git, tdir, evfile, gemini, reader, history>>

NextGenerate == GenerateComprehensivePr

SpecGenerate == InitGenerate /\ [][NextGenerate]_vars

(***************************************************************************)
(* Observers of a finished change analysis.                                *)
(***************************************************************************)
IsGeminiAnalysis == req.op = "analyze_with_gemini"

\* C18: parsing the name-status output: every line that parses into exactly
\* one status token and one path yields exactly one file entry, in output
\* order; every other line is skipped without making the call fail; output
\* with no parseable line gives a successful result with zero files, which
\* differs from an error result.
C18_ParseNameStatus ==
  LET \* the file entries of the parseable lines of an output, in output order
      ParseableEntries(stdout) ==
        LET \* a line that parses into exactly one status token and one path
            Parseable(line) ==
              LET fields == Split(line, TAB)
              IN Len(fields) = 2 /\ fields[1] # <<>> /\ fields[2] # <<>>
        IN  LET lines == SelectSeq(Split(stdout, NL), Parseable)
            IN [i \in 1..Len(lines) |->
                  [status |-> Split(lines[i], TAB)[1], filename |-> Split(lines[i], TAB)[2]]]
  IN  (Done /\ IsAnalyze /\ IsBuild /\ git.launch /\ git.ns.exit = 0) =>
        /\ ~IsError(result)
        /\ "files" \in DOMAIN result
        /\ result.files = ParseableEntries(git.ns.stdout)
        /\ result.files_changed = Len(ParseableEntries(git.ns.stdout))

\* the sum of the counters of a mapping
RECURSIVE SumOver(_, _)
SumOver(keys, counts) ==
  IF keys = {} THEN 0
  ELSE LET k == CHOOSE x \in keys : TRUE
       IN counts[k] + SumOver(keys \ {k}, counts)

ExtensionOf(filename) ==
  LET \* the extension of a file name: the text after its last ".", in lower case
      LastDot ==
        CHOOSE i \in 1..Len(filename) :
          filename[i] = "." /\ \A j \in (i + 1)..Len(filename) : filename[j] # "."
  IN  Lower(SubSeq(filename, LastDot + 1, Len(filename)))

\* C19: aggregate counters are exact counts over the file sequence:
\* files_changed equals the number of file entries returned, and in the
\* file-pattern summary total_files equals the number of files, the per-status
\* counts sum to total_files, and each per-extension count equals the number
\* of files with that extension.
C19_ExactCounters ==
  LET \* the counters of a file-pattern summary are the counts over the files
      ExactSummary(summary, files) ==
        LET \* the positions of the files with a status, with an extension
            WithStatus(status) == {i \in 1..Len(files) : files[i].status = status}
            WithExtension(ext) ==
              {i \in 1..Len(files) :
                 "." \in Range(files[i].filename) /\ ExtensionOf(files[i].filename) = ext}
        IN  /\ summary.total_files = Len(files)
            /\ SumOver(DOMAIN summary.change_types, summary.change_types) = summary.total_files
            /\ DOMAIN summary.change_types = {files[i].status : i \in 1..Len(files)}
            /\ \A status \in DOMAIN summary.change_types :
                 summary.change_types[status] = Cardinality(WithStatus(status))
            /\ DOMAIN summary.file_types =
                 {ExtensionOf(files[i].filename) :
                    i \in {j \in 1..Len(files) : "." \in Range(files[j].filename)}}
            /\ \A ext \in DOMAIN summary.file_types :
                 summary.file_types[ext] = Cardinality(WithExtension(ext))
  IN  Done =>
        /\ (IsAnalyze /\ ~IsError(result)) => result.files_changed = Len(result.files)
        /\ (IsGeminiAnalysis /\ ~IsError(result)) =>
             /\ result.file_changes.files_changed = Len(result.file_changes.files)
             /\ Len(prompts) = 1
             /\ prompts[1].changed_files = result.file_changes.files
        /\ \A i \in 1..Len(prompts) :
             ExactSummary(prompts[i].file_analysis, prompts[i].changed_files)

C19_Witness ==
  /\ Done /\ IsGeminiAnalysis /\ ~IsError(result)
  /\ result.file_changes.files_changed = 2
  /\ Len(prompts) = 1
  /\ prompts[1].file_analysis.total_files = 2
  /\ prompts[1].file_analysis.file_types = (<<"p", "y">> :> 2)
  /\ prompts[1].file_analysis.change_types = (<<"A">> :> 1) @@ (<<"M">> :> 1)

\* the tool returned a classification of the change
HasClassification(r) ==
  ~IsError(r) /\ "analysis" \in DOMAIN r.gemini_analysis

\* C20: the change classifier evaluates its rules in order and the first
\* matching rule decides, so every classification the tool returns is the
\* one of the rules: a change set whose files all match a test indicator
\* is classified 'test' with confidence 'high', also when its files have
\* status Added; a change set with at least 80% documentation files that are
\* not all test files is classified 'docs' with confidence 'high'.
C20_OrderedRules ==
  LET \* the indicators of the classifier rules: a test file has "test" or "spec"
      \* in its name; a documentation file has the extension md, rst or txt, or
      \* "doc" in its path
      TestFile(filename) ==
        \/ Contains(Lower(filename), <<"t", "e", "s", "t">>)
        \/ Contains(Lower(filename), <<"s", "p", "e", "c">>)
      DocFile(filename) ==
        \/ /\ "." \in Range(filename)
           /\ ExtensionOf(filename) \in {<<"m", "d">>, <<"r", "s", "t">>, <<"t", "x", "t">>}
        \/ Contains(Lower(filename), <<"d", "o", "c">>)
      \* the number of files of a change set that satisfy an indicator
      CountOf(files, Indicator(_)) ==
        Cardinality({i \in 1..Len(files) : Indicator(files[i].filename)})
      \* the result classifies the change as a type with a confidence
      Classified(r, type, confidence) ==
        /\ HasClassification(r)
        /\ r.gemini_analysis.analysis.change_type = type
        /\ "confidence" \in DOMAIN r.gemini_analysis.analysis
        /\ r.gemini_analysis.analysis.confidence = <<confidence>>
  IN  (Done /\ IsGeminiAnalysis /\ HasClassification(result)) =>
        LET files == changed_files(git.ns.stdout)
            total_files == Len(files)
            tests == CountOf(files, TestFile)
            docs == CountOf(files, DocFile)
        IN /\ (total_files > 0 /\ tests = total_files) =>
                Classified(result, S.test, "high")
           /\ (total_files > 0 /\ tests < total_files /\ 5 * docs >= 4 * total_files) =>
                Classified(result, S.docs, "high")

\* C21: the change classifier is total and deterministic: for every
\* well-formed ChangeSet, the empty one included, it returns a classification
\* without failing, and two calls on equal ChangeSets return equal results.
C21_TotalAndDeterministic ==
  LET \* another call on the same ChangeSet: the model may word its reply
      \* differently, and the call may run in a process with another hash seed
      OtherCalls ==
        {[gemini EXCEPT !.text = t, !.hashseed = h] :
           t \in {<<"{test, high}">>, <<"I cannot analyze this change.">>},
           h \in {0, 1}}
  IN  (Done /\ IsGeminiAnalysis /\ gemini.available /\ git.launch /\ git.ns.exit = 0) =>
        /\ HasClassification(result)
        /\ Len(prompts) = 1
        /\ \A gm \in OtherCalls :
             /\ analyze_with_gemini(req.include_diff, req.base_branch, git, tdir, gm)
                  = result
             /\ analyze_file_patterns(result.file_changes.files, gm.hashseed)
                  = prompts[1].file_analysis

IsGenerate == req.op = "generate_comprehensive_pr"

\* C24: generate_comprehensive_pr invokes the description generator only
\* after the Gemini change analysis succeeded: if the analysis step failed
\* at any layer (git failure, service unavailable, or the model call or its
\* parsing failing inside analyze_code_changes), the tool returns an error
\* envelope and performs none of the later steps (commit history, template
\* lookup, description generation).
C24_DescriptionAfterAnalysis ==
  LET analysis_data == analyze_with_gemini(TRUE, req.base_branch, git, tdir, gemini)
      \* the analysis step failed: the tool, or analyze_code_changes inside it,
      \* returned an error
      AnalysisFailed ==
        \/ IsError(analysis_data)
        \/ IsError(analysis_data.gemini_analysis)
  IN  (Done /\ IsGenerate /\ AnalysisFailed) =>
        /\ IsError(result)
        /\ "log" \notin Range(cmds)
        /\ DOMAIN result \cap {"commit_history", "template_content", "pr_description"} = {}
        /\ Len(prompts) <= 1

====
